---- MODULE Spec2Model ----
(***************************************************************************)
(* A model of the user-space TCP endpoint of src/src/lib.rs (connection   *)
(* manager, packet loop, blocking API) and src/src/tcp.rs (Connection).   *)
(*                                                                         *)
(* u32 values are held in their two's-complement reading: the u32 value u *)
(* is the integer u when u < 2^31 and u - 2^32 otherwise, so that every   *)
(* value fits the model checker's integers.  WSub/WAdd are wrapping_sub   *)
(* and wrapping_add on that reading, UGt/ULt/UMin compare the unsigned    *)
(* values.                                                                 *)
(***************************************************************************)
EXTENDS Integers, Sequences, FiniteSets, TLC

VARIABLES
    connections,    \* ConnectionManager.connections : Quad -> Connection
    pending,        \* ConnectionManager.pending     : port -> queue of Quad
    listeners,      \* live TcpListener handles, counted per port
    streams,        \* live TcpStream handles, counted per Quad
    readers,        \* per Quad: the position of the thread inside TcpStream::read
    poisoned,       \* a thread panicked while holding the manager mutex
    overflow_checks,\* the build panics on integer overflow (debug) or wraps (release)
    ret,            \* what the latest API call returned
    out,            \* the segments written to the device by the latest step
    budget,         \* how many steps may still happen (model bound)
    calc,           \* inputs and results of the sequence-arithmetic functions
    wrote           \* per Quad: every byte TcpStream::write has queued, in order

vars == <<connections, pending, listeners, streams, readers, poisoned,
          overflow_checks, ret, out, budget, calc, wrote>>

-----------------------------------------------------------------------------
(* u32 arithmetic *)

Max32 == 2147483647
Min32 == (-Max32) - 1

Min(a, b) == IF a <= b THEN a ELSE b

\* lhs.wrapping_sub(rhs) on u32
WSub(a, b) ==
    IF (a >= 0) = (b >= 0) THEN a - b
    ELSE IF a >= 0
         THEN (IF a <= Max32 + b THEN a - b
               ELSE ((a - Max32) - 1) - (b - Min32))
         ELSE (IF a >= Min32 + b THEN a - b
               ELSE (a - Min32) - ((b - Max32) - 1))

WNeg(b) == IF b = Min32 THEN Min32 ELSE -b

\* lhs.wrapping_add(rhs) on u32
WAdd(a, b) == WSub(a, WNeg(b))

\* unsigned comparison of two u32
UGt(a, b) == IF (a < 0) = (b < 0) THEN a > b ELSE a < 0
ULt(a, b) == UGt(b, a)
UMin(a, b) == IF UGt(a, b) THEN b ELSE a

\* a + b on u32 overflows
AddOverflows(a, b) == ULt(WAdd(a, b), a)
\* a - b on u32 underflows
SubUnderflows(a, b) == ULt(a, b)

\* min(x as usize, n) for a u32 x and a length n
ClampLen(x, n) == IF x < 0 \/ x > n THEN n ELSE x

RECURSIVE Xor(_, _)
\* the ^ operator on non-negative integers
Xor(a, b) ==
    IF a = 0 /\ b = 0 THEN 0
    ELSE (((a % 2) + (b % 2)) % 2) + (2 * Xor(a \div 2, b \div 2))

\* the right-hand side of the comparison in wrapping_lt: 2 ^ 31
TWO_XOR_31 == Xor(2, 31)

\* fn wrapping_lt: lhs.wrapping_sub(rhs) > 2 ^ 31
wrapping_lt(lhs, rhs) == UGt(WSub(lhs, rhs), TWO_XOR_31)

\* fn is_between_wrapped
is_between_wrapped(start, x, end) == wrapping_lt(start, x) /\ wrapping_lt(x, end)

-----------------------------------------------------------------------------
(* tcp.rs: Connection *)

ISS == 0
SEND_WND == 1024
MTU_BUF == 1500
HEADERS_LEN == 40

None == <<>>
Some(v) == <<v>>

B2N(b) == IF b THEN 1 ELSE 0

\* State::is_synchronized is unused by the code; is_rcv_closed decides EOF
is_rcv_closed(c) == c.state = "TimeWait"

\* Connection::availability: the READ bit
availability(c) == is_rcv_closed(c) \/ c.incoming # <<>>

\* the result of an operation on a connection: the connection afterwards, the
\* segments it wrote to the device, and whether it panicked
Done(c, segs) == [c |-> c, segs |-> segs, panic |-> FALSE]
Panic(c, segs) == [c |-> c, segs |-> segs, panic |-> TRUE]

\* Connection::write(seq, limit): emit one segment starting at seq
write(c, seq, limit) ==
    LET fin_only == c.closed_at # None /\ seq = WAdd(c.closed_at[1], 1)
        offset == IF fin_only THEN 0 ELSE WSub(seq, c.send_una)
        lim == IF fin_only THEN 0 ELSE limit
        len == Len(c.unacked)
    IN  IF offset < 0 \/ offset > len
        THEN \* &t[(offset - skipped)..] is out of range
             Panic(c, <<>>)
        ELSE
        LET max_data == ClampLen(lim, len - offset)
            payload_bytes == Min(max_data, MTU_BUF - HEADERS_LEN)
            payload == SubSeq(c.unacked, offset + 1, offset + payload_bytes)
            next_seq == WAdd(WAdd(WAdd(seq, payload_bytes), B2N(c.tcp_syn)),
                             B2N(c.tcp_fin))
            seg == [seq |-> seq, ack |-> c.recv_nxt, syn |-> c.tcp_syn,
                    ackf |-> TRUE, fin |-> c.tcp_fin, data |-> payload]
        IN  Done([c EXCEPT !.tcp_syn = FALSE,
                           !.tcp_fin = FALSE,
                           !.send_nxt = IF wrapping_lt(c.send_nxt, next_seq)
                                        THEN next_seq ELSE c.send_nxt,
                           !.send_times = c.send_times \cup {seq}],
                 <<seg>>)

\* Connection::accept: the connection built from a segment, if any
accept(seg, dbg) ==
    IF ~seg.syn THEN [some |-> FALSE, panic |-> FALSE, c |-> None, segs |-> <<>>]
    ELSE IF dbg /\ AddOverflows(seg.seq, 1)
    THEN \* tcp_header.sequence_number() + 1 overflows
         [some |-> FALSE, panic |-> TRUE, c |-> None, segs |-> <<>>]
    ELSE
    LET c == [state |-> "SynRcvd",
              send_iss |-> ISS, send_una |-> ISS, send_nxt |-> ISS,
              send_wnd |-> SEND_WND,
              recv_irs |-> seg.seq, recv_nxt |-> WAdd(seg.seq, 1),
              recv_wnd |-> seg.wnd,
              tcp_syn |-> TRUE, tcp_fin |-> FALSE,
              send_times |-> {},
              incoming |-> <<>>, unacked |-> <<>>,
              closed |-> FALSE, closed_at |-> None]
        r == write(c, c.send_nxt, 0)
    IN  [some |-> ~r.panic, panic |-> r.panic, c |-> r.c, segs |-> r.segs]

\* on_packet, the acceptability test (lines 304-342)
segment_okay(recv_nxt, recv_wnd, seqn, slen) ==
    LET wend == WAdd(recv_nxt, recv_wnd)
    IN  IF slen = 0
        THEN IF recv_wnd = 0
             THEN seqn = recv_nxt
             ELSE is_between_wrapped(WSub(recv_nxt, 1), seqn, wend)
        ELSE IF recv_wnd = 0
             THEN FALSE
             ELSE \/ is_between_wrapped(WSub(recv_nxt, 1), seqn, wend)
                  \/ is_between_wrapped(WSub(recv_nxt, 1),
                                        WAdd(seqn, slen - 1), wend)

\* on_packet, ACK processing in SynRcvd (lines 357-367)
ack_synrcvd(c, ackn) ==
    IF c.state = "SynRcvd"
       /\ is_between_wrapped(WSub(c.send_una, 1), ackn, WAdd(c.send_nxt, 1))
    THEN [c EXCEPT !.state = "Estab"]
    ELSE c

\* on_packet, ACK processing in Estab/FinWait1/FinWait2 (lines 369-393)
ack_estab(c, ackn) ==
    IF c.state \in {"Estab", "FinWait1", "FinWait2"}
       /\ is_between_wrapped(c.send_una, ackn, WAdd(c.send_nxt, 1))
    THEN LET data_start == IF c.send_una = c.send_iss
                           THEN WAdd(c.send_una, 1) ELSE c.send_una
             acked_data_end == ClampLen(WSub(ackn, data_start), Len(c.unacked))
             d == IF c.unacked # <<>>
                  THEN [c EXCEPT
                          !.unacked = SubSeq(c.unacked, acked_data_end + 1,
                                             Len(c.unacked)),
                          !.send_times =
                              {k \in c.send_times :
                                 ~is_between_wrapped(c.send_una, k, ackn)}]
                  ELSE c
         IN  [d EXCEPT !.send_una = ackn]
    ELSE c

\* on_packet, FinWait1 -> FinWait2 (lines 399-403)
ack_finwait1(c) ==
    IF c.state = "FinWait1" /\ c.send_una = c.send_iss + 2
    THEN [c EXCEPT !.state = "FinWait2"]
    ELSE c

\* on_packet, payload integration (lines 405-420)
take_data(c, seg) ==
    IF seg.data # <<>> /\ c.state \in {"Estab", "FinWait1", "FinWait2"}
    THEN LET at == WSub(c.recv_nxt, seg.seq)
             unread_data_at == IF at < 0 \/ at > Len(seg.data) THEN 0 ELSE at
             d == [c EXCEPT
                     !.incoming = c.incoming \o
                         SubSeq(seg.data, unread_data_at + 1, Len(seg.data)),
                     !.recv_nxt = WAdd(seg.seq, Len(seg.data))]
         IN  write(d, d.send_nxt, 0)
    ELSE Done(c, <<>>)

\* on_packet, FIN processing (lines 422-432)
take_fin(c, seg) ==
    IF seg.fin
    THEN IF c.state = "FinWait2"
         THEN LET r == write([c EXCEPT !.recv_nxt = WAdd(c.recv_nxt, 1)],
                             c.send_nxt, 0)
              IN  IF r.panic THEN r
                  ELSE Done([r.c EXCEPT !.state = "TimeWait"], r.segs)
         ELSE \* unimplemented!()
              Panic(c, <<>>)
    ELSE Done(c, <<>>)

\* Connection::on_packet
on_packet(c, seg) ==
    LET slen == Len(seg.data) + B2N(seg.fin) + B2N(seg.syn)
    IN  IF ~segment_okay(c.recv_nxt, c.recv_wnd, seg.seq, slen)
        THEN write(c, c.send_nxt, 0)
        ELSE IF ~seg.ackf
        THEN Done(IF seg.syn THEN [c EXCEPT !.recv_nxt = WAdd(seg.seq, 1)]
                  ELSE c, <<>>)
        ELSE
        LET c3 == ack_finwait1(ack_estab(ack_synrcvd(c, seg.ack), seg.ack))
            r4 == take_data(c3, seg)
        IN  IF r4.panic THEN r4
            ELSE LET r5 == take_fin(r4.c, seg)
                 IN  [r5 EXCEPT !.segs = r4.segs \o r5.segs]

\* Connection::on_tick; timeout says that the earliest timer entry at or after
\* send.una has waited longer than 1 s and than 1.5 * srtt
on_tick(c, timeout, dbg) ==
    LET len == Len(c.unacked)
        nunacked == WSub(IF c.closed_at = None THEN c.send_nxt
                         ELSE c.closed_at[1], c.send_una)
        nunsent == WSub(len, nunacked)
        should_retransmit ==
            timeout /\ \E k \in c.send_times : ~ULt(k, c.send_una)
    IN  IF dbg /\ SubUnderflows(len, nunacked)
        THEN Panic(c, <<>>)
        ELSE IF should_retransmit
        THEN LET resend == Min(len, c.send_wnd)
                 d == IF resend < c.send_wnd /\ c.closed
                      THEN [c EXCEPT !.tcp_fin = TRUE,
                                     !.closed_at = Some(WAdd(c.send_una, len))]
                      ELSE c
                 r == write(d, d.send_una, resend)
             IN  IF r.panic THEN r
                 ELSE Done([r.c EXCEPT !.send_nxt = WAdd(r.c.send_una, resend)],
                           r.segs)
        ELSE IF nunsent = 0 /\ c.closed_at # None
        THEN Done(c, <<>>)
        ELSE IF dbg /\ SubUnderflows(c.send_wnd, nunacked)
        THEN Panic(c, <<>>)
        ELSE
        LET allowed == WSub(c.send_wnd, nunacked)
            send == UMin(nunsent, allowed)
            d == IF ULt(send, allowed) /\ c.closed /\ c.closed_at = None
                 THEN [c EXCEPT !.tcp_fin = TRUE,
                                !.closed_at = Some(WAdd(c.send_nxt, nunsent))]
                 ELSE c
        IN  IF allowed = 0 THEN Done(c, <<>>)
            ELSE write(d, d.send_nxt, send)

\* Connection::close
close(c) == [c EXCEPT !.closed = TRUE]

-----------------------------------------------------------------------------
(* lib.rs: the connection manager, the packet loop and the API.  Every    *)
(* step runs under manager.lock().unwrap(); a panic under the lock poisons *)
(* the mutex, after which every lock().unwrap() panics too: no step is      *)
(* taken in a poisoned state.                                               *)

SENDQUEUE_SIZE == 1024

\* model bound: how many steps (packets, ticks, API calls) a run takes
MaxSteps == 6

Ports == {80, 81}
Peers == {1, 2}
Quads == {[src |-> p, dst |-> 80] : p \in Peers}
NoQuad == [src |-> 0, dst |-> 0]

\* a segment as the packet loop hands it to the connection: the fields of
\* the TCP header that the code reads, and the payload
Seg(seq, ack, syn, ackf, fin, wnd, data) ==
    [seq |-> seq, ack |-> ack, syn |-> syn, ackf |-> ackf, fin |-> fin,
     wnd |-> wnd, data |-> data]

\* what the application may pass
BufLens == {0, 1, 3}
Fill(n) == [i \in 1..n |-> i % 251]
WriteBufs == {<<1, 2>>, Fill(SENDQUEUE_SIZE)}

\* segments addressed to a Quad without a connection: a SYN, a SYN at the
\* top of the sequence space with a zero window, a bare ACK, a SYN+ACK
NewSegs ==
    {Seg(100, 0, TRUE, FALSE, FALSE, 4, <<>>),
     Seg(-1, 0, TRUE, FALSE, FALSE, 0, <<>>),
     Seg(100, 1, FALSE, TRUE, FALSE, 4, <<>>),
     Seg(100, 1, TRUE, TRUE, FALSE, 4, <<>>)}

\* segments addressed to the connection c: the in-order ACK, in-order data,
\* an in-order FIN, the retransmitted SYN, a segment just left of the
\* window, and an ACK far beyond send.nxt
ConnSegs(c) ==
    {Seg(c.recv_nxt, c.send_nxt, FALSE, TRUE, FALSE, 4, <<>>),
     Seg(c.recv_nxt, c.send_nxt, FALSE, TRUE, FALSE, 4, <<7, 8>>),
     Seg(c.recv_nxt, c.send_nxt, FALSE, TRUE, TRUE, 4, <<>>),
     Seg(c.recv_irs, 0, TRUE, FALSE, FALSE, 4, <<>>),
     Seg(WSub(c.recv_nxt, 1), c.send_nxt, FALSE, TRUE, FALSE, 4, <<>>),
     Seg(c.recv_nxt, WAdd(c.send_una, 5000), FALSE, TRUE, FALSE, 4, <<>>)}

NoRet == [op |-> "none", port |-> 0, quad |-> NoQuad, res |-> "none",
          n |-> 0, len |-> 0, buf |-> <<>>]
Ret(op, port, quad, res, n, len, buf) ==
    [op |-> op, port |-> port, quad |-> quad, res |-> res,
     n |-> n, len |-> len, buf |-> buf]

\* a map without keys
EmptyMap == [x \in {} |-> 0]

\* a thread that is not inside read
Idle == [at |-> "idle", n |-> 0]

\* no sequence-arithmetic function has been applied
NoCalc == [f |-> "none", x |-> 0, y |-> 0, z |-> 0, wnd |-> 0, slen |-> 0,
           r |-> FALSE]

Init ==
    /\ connections = EmptyMap
    /\ pending = EmptyMap
    /\ listeners = [p \in Ports |-> 0]
    /\ streams = [q \in Quads |-> 0]
    /\ readers = [q \in Quads |-> Idle]
    /\ poisoned = FALSE
    /\ overflow_checks \in BOOLEAN
    /\ ret = NoRet
    /\ out = <<>>
    /\ budget = MaxSteps
    /\ calc = NoCalc
    /\ wrote = [q \in Quads |-> <<>>]

\* a map without the key k
Remove(m, k) == [x \in DOMAIN m \ {k} |-> m[x]]
\* a map with k set to v
Insert(m, k, v) == [x \in DOMAIN m \cup {k} |-> IF x = k THEN v ELSE m[x]]

\* rcv_var.notify_all(): every thread parked in read is woken
notify_all(rd) ==
    [q \in DOMAIN rd |-> IF rd[q].at = "wait" THEN [rd[q] EXCEPT !.at = "woken"]
                         ELSE rd[q]]

\* packet_loop, Entry::Occupied: one segment for an existing connection
PacketOccupied(q, seg) ==
    /\ ~poisoned
    /\ budget > 0
    /\ budget' = budget - 1
    /\ q \in DOMAIN connections
    /\ LET r == on_packet(connections[q], seg)
       IN  /\ connections' = [connections EXCEPT ![q] = r.c]
           /\ out' = r.segs
           /\ poisoned' = r.panic
           /\ readers' = IF ~r.panic /\ availability(r.c)
                         THEN notify_all(readers) ELSE readers
    /\ ret' = NoRet
    /\ UNCHANGED <<pending, listeners, streams, overflow_checks, calc, wrote>>

\* the mutation of the packet loop that takes the Entry::Vacant branch for
\* every segment, whether or not the Quad has a connection
PacketVacant_always(q, seg) ==
    /\ ~poisoned
    /\ budget > 0
    /\ budget' = budget - 1
    /\ IF q.dst \in DOMAIN pending
       THEN LET r == accept(seg, overflow_checks)
            IN  /\ poisoned' = r.panic
                /\ out' = r.segs
                /\ IF r.some
                   THEN /\ connections' = Insert(connections, q, r.c)
                        /\ pending' = [pending EXCEPT ![q.dst] = Append(@, q)]
                   ELSE UNCHANGED <<connections, pending>>
       ELSE /\ out' = <<>>
            /\ UNCHANGED <<connections, pending, poisoned>>
    /\ ret' = NoRet
    /\ UNCHANGED <<listeners, streams, readers, overflow_checks, calc, wrote>>

\* packet_loop, Entry::Vacant: one segment for a Quad without a connection
PacketVacant(q, seg) ==
    /\ ~poisoned
    /\ budget > 0
    /\ budget' = budget - 1
    /\ q \notin DOMAIN connections
    /\ IF q.dst \in DOMAIN pending
       THEN LET r == accept(seg, overflow_checks)
            IN  /\ poisoned' = r.panic
                /\ out' = r.segs
                /\ IF r.some
                   THEN /\ connections' = Insert(connections, q, r.c)
                        /\ pending' = [pending EXCEPT ![q.dst] = Append(@, q)]
                   ELSE UNCHANGED <<connections, pending>>
       ELSE /\ out' = <<>>
            /\ UNCHANGED <<connections, pending, poisoned>>
    /\ ret' = NoRet
    /\ UNCHANGED <<listeners, streams, readers, overflow_checks, calc, wrote>>

\* Connection::on_tick on one connection of the table, under the manager
\* mutex (lib.rs holds no caller of on_tick; the step is the call itself)
Tick(q, timeout) ==
    /\ ~poisoned
    /\ budget > 0
    /\ budget' = budget - 1
    /\ q \in DOMAIN connections
    /\ LET r == on_tick(connections[q], timeout, overflow_checks)
       IN  /\ connections' = [connections EXCEPT ![q] = r.c]
           /\ out' = r.segs
           /\ poisoned' = r.panic
    /\ ret' = NoRet
    /\ UNCHANGED <<pending, listeners, streams, readers, overflow_checks, calc, wrote>>

\* Connection::close on one connection of the table (lib.rs holds no caller)
Close(q) ==
    /\ ~poisoned
    /\ budget > 0
    /\ budget' = budget - 1
    /\ q \in DOMAIN connections
    /\ connections' = [connections EXCEPT ![q] = close(@)]
    /\ out' = <<>>
    /\ ret' = NoRet
    /\ UNCHANGED <<pending, listeners, streams, readers, poisoned,
                   overflow_checks, calc, wrote>>

\* the mutation of bind that does not look for an existing queue
bind_overwrite(pend, port) == [ok |-> TRUE, pending |-> Insert(pend, port, <<>>)]

\* Interface::bind: the queue map afterwards and whether a listener is returned
bind(pend, port) ==
    IF port \in DOMAIN pend
    THEN [ok |-> FALSE, pending |-> pend]
    ELSE [ok |-> TRUE, pending |-> Insert(pend, port, <<>>)]

\* Interface::bind
Bind(port) ==
    /\ ~poisoned
    /\ budget > 0
    /\ budget' = budget - 1
    /\ LET r == bind(pending, port)
       IN  /\ pending' = r.pending
           /\ listeners' = IF r.ok THEN [listeners EXCEPT ![port] = @ + 1]
                           ELSE listeners
           /\ ret' = Ret("bind", port, NoQuad,
                         IF r.ok THEN "ok" ELSE "AddrInUse", 0, 0, <<>>)
    /\ out' = <<>>
    /\ UNCHANGED <<connections, streams, readers, poisoned, overflow_checks, calc, wrote>>

\* Drop for TcpListener
DropListener(port) ==
    /\ ~poisoned
    /\ budget > 0
    /\ budget' = budget - 1
    /\ listeners[port] > 0
    /\ listeners' = [listeners EXCEPT ![port] = @ - 1]
    /\ IF port \in DOMAIN pending
       THEN /\ pending' = Remove(pending, port)
            \* for quad in pending { unimplemented!() }
            /\ poisoned' = (pending[port] # <<>>)
       ELSE \* .expect("port closed while listener active")
            /\ poisoned' = TRUE
            /\ UNCHANGED pending
    /\ ret' = Ret("drop_listener", port, NoQuad,
                  IF poisoned' THEN "panic" ELSE "ok", 0, 0, <<>>)
    /\ out' = <<>>
    /\ UNCHANGED <<connections, streams, readers, overflow_checks, calc, wrote>>

\* TcpListener::accept
Accept(port) ==
    /\ ~poisoned
    /\ budget > 0
    /\ budget' = budget - 1
    /\ listeners[port] > 0
    /\ IF port \notin DOMAIN pending
       THEN \* cm.pending.get_mut(&self.0).unwrap()
            /\ poisoned' = TRUE
            /\ ret' = Ret("accept", port, NoQuad, "panic", 0, 0, <<>>)
            /\ UNCHANGED <<pending, streams>>
       ELSE IF pending[port] # <<>>
       THEN /\ pending' = [pending EXCEPT ![port] = Tail(@)]
            /\ streams' = [streams EXCEPT ![Head(pending[port])] = @ + 1]
            /\ ret' = Ret("accept", port, Head(pending[port]), "ok", 0, 0, <<>>)
            /\ UNCHANGED poisoned
       ELSE /\ ret' = Ret("accept", port, NoQuad, "WouldBlock", 0, 0, <<>>)
            /\ UNCHANGED <<pending, streams, poisoned>>
    /\ out' = <<>>
    /\ UNCHANGED <<connections, listeners, readers, overflow_checks, calc, wrote>>

\* Drop for TcpStream
DropStream(q) ==
    /\ ~poisoned
    /\ budget > 0
    /\ budget' = budget - 1
    /\ streams[q] > 0
    /\ readers[q] = Idle
    /\ streams' = [streams EXCEPT ![q] = @ - 1]
    /\ IF q \in DOMAIN connections
       THEN \* the connection is removed, then unimplemented!()
            /\ connections' = Remove(connections, q)
            /\ poisoned' = TRUE
       ELSE UNCHANGED <<connections, poisoned>>
    /\ ret' = Ret("drop", 0, q, IF poisoned' THEN "panic" ELSE "ok", 0, 0, <<>>)
    /\ out' = <<>>
    /\ UNCHANGED <<pending, listeners, readers, overflow_checks, calc, wrote>>

\* TcpStream::read, lines 199-209: the two copy_from_slice calls on the
\* slices (head, tail) of incoming, for a buffer of n bytes
read_copy(n, head, tail) ==
    LET hread == Min(n, Len(head))
        tread == Min(n - hread, Len(tail))
    IN  IF n # hread \/ n # tread
        THEN \* copy_from_slice: source and destination lengths differ
             [panic |-> TRUE, nread |-> 0, buf |-> <<>>]
        ELSE [panic |-> FALSE, nread |-> hread + tread,
              buf |-> SubSeq(tail, 1, tread)]

\* TcpStream::read up to the wait on rcv_var
Read(q, n) ==
    /\ ~poisoned
    /\ budget > 0
    /\ budget' = budget - 1
    /\ streams[q] > 0
    /\ readers[q] = Idle
    /\ IF q \notin DOMAIN connections
       THEN /\ ret' = Ret("read", 0, q, "ConnectionAborted", 0, n, <<>>)
            /\ UNCHANGED <<connections, readers, poisoned>>
       ELSE LET c == connections[q]
            IN  IF is_rcv_closed(c) /\ c.incoming = <<>>
                THEN /\ ret' = Ret("read", 0, q, "ok", 0, n, <<>>)
                     /\ UNCHANGED <<connections, readers, poisoned>>
                ELSE IF c.incoming # <<>>
                THEN \E h \in 1..Len(c.incoming) :
                       LET r == read_copy(n, SubSeq(c.incoming, 1, h),
                                          SubSeq(c.incoming, h + 1,
                                                 Len(c.incoming)))
                       IN  /\ poisoned' = r.panic
                           /\ connections' =
                                [connections EXCEPT ![q].incoming =
                                   SubSeq(@, r.nread + 1, Len(@))]
                           /\ ret' = Ret("read", 0, q,
                                         IF r.panic THEN "panic" ELSE "ok",
                                         r.nread, n, r.buf)
                           /\ UNCHANGED readers
                ELSE /\ readers' = [readers EXCEPT ![q] = [at |-> "wait", n |-> n]]
                     /\ ret' = Ret("read", 0, q, "wait", 0, n, <<>>)
                     /\ UNCHANGED <<connections, poisoned>>
    /\ out' = <<>>
    /\ UNCHANGED <<pending, listeners, streams, overflow_checks, calc, wrote>>

\* TcpStream::read after rcv_var.wait returns: Ok(0)
ReadWoken(q) ==
    /\ ~poisoned
    /\ budget > 0
    /\ budget' = budget - 1
    /\ readers[q].at = "woken"
    /\ readers' = [readers EXCEPT ![q] = Idle]
    /\ ret' = Ret("read", 0, q, "ok", 0, readers[q].n, <<>>)
    /\ out' = <<>>
    /\ UNCHANGED <<connections, pending, listeners, streams, poisoned,
                   overflow_checks, calc, wrote>>

\* the mutation of nwrite that takes the whole buffer
nwrite_all(buflen, unackedlen) == buflen

\* TcpStream::write, line 232: how many bytes of the buffer are taken
nwrite(buflen, unackedlen) == Min(buflen, SENDQUEUE_SIZE - unackedlen)

\* TcpStream::write
Write(q, buf) ==
    /\ ~poisoned
    /\ budget > 0
    /\ budget' = budget - 1
    /\ streams[q] > 0
    /\ readers[q] = Idle
    /\ IF q \notin DOMAIN connections
       THEN /\ ret' = Ret("write", 0, q, "ConnectionAborted", 0, Len(buf), buf)
            /\ UNCHANGED <<connections, wrote>>
       ELSE LET c == connections[q]
                k == nwrite(Len(buf), Len(c.unacked))
            IN  IF Len(c.unacked) >= SENDQUEUE_SIZE
                THEN /\ ret' = Ret("write", 0, q, "WouldBlock", 0, Len(buf), buf)
                     /\ UNCHANGED <<connections, wrote>>
                ELSE /\ connections' = [connections EXCEPT ![q].unacked =
                                          @ \o SubSeq(buf, 1, k)]
                     /\ wrote' = [wrote EXCEPT ![q] = @ \o SubSeq(buf, 1, k)]
                     /\ ret' = Ret("write", 0, q, "ok", k, Len(buf), buf)
    /\ out' = <<>>
    /\ UNCHANGED <<pending, listeners, streams, readers, poisoned,
                   overflow_checks, calc>>

\* TcpStream::flush
Flush(q) ==
    /\ ~poisoned
    /\ budget > 0
    /\ budget' = budget - 1
    /\ streams[q] > 0
    /\ readers[q] = Idle
    /\ ret' = IF q \notin DOMAIN connections
              THEN Ret("flush", 0, q, "ConnectionAborted", 0, 0, <<>>)
              ELSE IF connections[q].unacked = <<>>
              THEN Ret("flush", 0, q, "ok", 0, 0, <<>>)
              ELSE Ret("flush", 0, q, "WouldBlock", 0, 0, <<>>)
    /\ out' = <<>>
    /\ UNCHANGED <<connections, pending, listeners, streams, readers, poisoned,
                   overflow_checks, calc, wrote>>

Next ==
    \/ \E q \in DOMAIN connections :
          \E seg \in ConnSegs(connections[q]) : PacketOccupied(q, seg)
    \/ \E q \in Quads, seg \in NewSegs : PacketVacant(q, seg)
    \/ \E q \in Quads, timeout \in BOOLEAN : Tick(q, timeout)
    \/ \E q \in Quads : Close(q)
    \/ \E port \in Ports : Bind(port)
    \/ \E port \in Ports : DropListener(port)
    \/ \E port \in Ports : Accept(port)
    \/ \E q \in Quads : DropStream(q)
    \/ \E q \in Quads, n \in BufLens : Read(q, n)
    \/ \E q \in Quads : ReadWoken(q)
    \/ \E q \in Quads, buf \in WriteBufs : Write(q, buf)
    \/ \E q \in Quads : Flush(q)

Spec == Init /\ [][Next]_vars

-----------------------------------------------------------------------------
(* The sequence-arithmetic functions on their own: Init draws the           *)
(* arguments, the actions apply wrapping_lt, is_between_wrapped and the     *)
(* acceptability test of on_packet to them.                                 *)

\* u32 arguments: around 0, around the code's threshold 29, around 2^31 and
\* around 2^32 - 1
U32Samples == {0, 1, 3, 4, 5, 29, 30, 100, 2000, Max32, Min32, -2000, -2, -1}
WndSamples == {0, 4, 1024}
SlenSamples == {0, 1, 2, 1025}

InitSeq ==
    /\ connections = EmptyMap
    /\ pending = EmptyMap
    /\ listeners = [p \in Ports |-> 0]
    /\ streams = [q \in Quads |-> 0]
    /\ readers = [q \in Quads |-> Idle]
    /\ poisoned = FALSE
    /\ overflow_checks = FALSE
    /\ ret = NoRet
    /\ out = <<>>
    /\ budget = 0
    /\ calc \in [f : {"none"}, x : U32Samples, y : U32Samples, z : {0, 4, -1},
                 wnd : WndSamples, slen : SlenSamples, r : {FALSE}]
    /\ wrote = [q \in Quads |-> <<>>]

\* wrapping_lt(x, y)
ApplyWrappingLt ==
    /\ calc.f = "none"
    /\ calc' = [calc EXCEPT !.f = "wrapping_lt", !.r = wrapping_lt(calc.x, calc.y)]
    /\ UNCHANGED <<connections, pending, listeners, streams, readers, poisoned,
                   overflow_checks, ret, out, budget, wrote>>

\* is_between_wrapped(x, y, z)
ApplyIsBetweenWrapped ==
    /\ calc.f = "none"
    /\ calc' = [calc EXCEPT !.f = "is_between_wrapped",
                            !.r = is_between_wrapped(calc.x, calc.y, calc.z)]
    /\ UNCHANGED <<connections, pending, listeners, streams, readers, poisoned,
                   overflow_checks, ret, out, budget, wrote>>

\* the acceptability test with recv.nxt = x, recv.wnd = wnd, seqn = y, slen
ApplySegmentOkay ==
    /\ calc.f = "none"
    /\ calc' = [calc EXCEPT !.f = "segment_okay",
                            !.r = segment_okay(calc.x, calc.wnd, calc.y, calc.slen)]
    /\ UNCHANGED <<connections, pending, listeners, streams, readers, poisoned,
                   overflow_checks, ret, out, budget, wrote>>

NextSeq == ApplyWrappingLt \/ ApplyIsBetweenWrapped \/ ApplySegmentOkay

SpecSeq == InitSeq /\ [][NextSeq]_vars

-----------------------------------------------------------------------------
(* The claims *)

\* C1: every Quad held in a port's pending queue refers to a connection
\* whose handshake has completed: its state is Estab or later, never SynRcvd.
C1_PendingQuadsAreEstablished ==
    \A p \in DOMAIN pending : \A i \in 1..Len(pending[p]) :
        pending[p][i] \in DOMAIN connections
        => connections[pending[p][i]].state # "SynRcvd"

\* C2: a read into a buffer of at least one byte returns 0 only at end of
\* stream, that is only when the receive side is closed and incoming is
\* empty; with the receive side open it waits and retries instead.
C2_ReadReturnsZeroOnlyAtEof ==
    (ret.op = "read" /\ ret.res = "ok" /\ ret.n = 0 /\ ret.len >= 1)
    => /\ ret.quad \in DOMAIN connections
       /\ is_rcv_closed(connections[ret.quad])
       /\ connections[ret.quad].incoming = <<>>

\* C3: a read into a buffer of n >= 1 bytes while incoming is non-empty
\* succeeds, returns k = min(n, incoming.len), and removes exactly the first
\* k bytes of incoming.
C3_ReadTakesFrontOfIncoming ==
    [][\A q \in Quads :
         (/\ ret'.op = "read" /\ ret'.quad = q /\ ret'.len >= 1
          /\ readers[q] = Idle
          /\ q \in DOMAIN connections
          /\ connections[q].incoming # <<>>)
         => LET inc == connections[q].incoming
                k == Min(ret'.len, Len(inc))
            IN  /\ ret'.res = "ok"
                /\ ret'.n = k
                /\ q \in DOMAIN connections'
                /\ connections'[q].incoming = SubSeq(inc, k + 1, Len(inc))]_vars

\* C4: unacked never holds more than SENDQUEUE_SIZE bytes; a write appends
\* exactly min(buf.len, SENDQUEUE_SIZE - unacked.len) bytes of its buffer to
\* the back of unacked and a successful write returns that count; no other
\* step adds bytes to unacked.
C4_UnackedBounded ==
    /\ [](\A q \in DOMAIN connections :
            Len(connections[q].unacked) <= SENDQUEUE_SIZE)
    /\ [][\A q \in DOMAIN connections \cap DOMAIN connections' :
            LET u == connections[q].unacked
                v == connections'[q].unacked
                k == Min(ret'.len, SENDQUEUE_SIZE - Len(u))
            IN  IF ret'.op = "write" /\ ret'.quad = q
                THEN /\ v = u \o SubSeq(ret'.buf, 1, k)
                     /\ ret'.res = "ok" => ret'.n = k
                ELSE /\ Len(v) <= Len(u)
                     /\ v = SubSeq(u, Len(u) - Len(v) + 1, Len(u))]_vars

\* C4 witness: a write was cut short because unacked became full
C4_Witness ==
    /\ ret.op = "write" /\ ret.res = "ok"
    /\ 0 < ret.n /\ ret.n < ret.len
    /\ ret.quad \in DOMAIN connections
    /\ Len(connections[ret.quad].unacked) = SENDQUEUE_SIZE

\* C5: a write on a full send buffer blocks; it never returns a would-block
\* error.
C5_WriteNeverWouldBlock ==
    ~(ret.op = "write" /\ ret.res = "WouldBlock")

\* C6: bind fails with address-in-use exactly when the port already has a
\* pending queue, and then changes neither the queues nor the connections
\* nor the listeners; otherwise it registers an empty queue for the port and
\* returns a Listener.  At most one live Listener exists per port.
C6_BindContract ==
    /\ [](\A p \in Ports : listeners[p] <= 1)
    /\ [][\A p \in Ports :
            (ret'.op = "bind" /\ ret'.port = p)
            => IF p \in DOMAIN pending
               THEN /\ ret'.res = "AddrInUse"
                    /\ pending' = pending
                    /\ connections' = connections
                    /\ listeners' = listeners
               ELSE /\ ret'.res = "ok"
                    /\ pending' = Insert(pending, p, <<>>)
                    /\ connections' = connections
                    /\ listeners' = [listeners EXCEPT ![p] = 1]]_vars

\* C6 witness: bind has failed on a port whose queue holds a Quad
C6_Witness ==
    /\ ret.op = "bind" /\ ret.res = "AddrInUse"
    /\ ret.port \in DOMAIN pending
    /\ pending[ret.port] # <<>>
    /\ listeners[ret.port] = 1

\* C7: dropping a Stream is a graceful close: the connection stays in the
\* table with closed = true, the drop writes nothing to the device and
\* returns.
C7_DropIsGracefulClose ==
    [][\A q \in Quads :
         (ret'.op = "drop" /\ ret'.quad = q /\ q \in DOMAIN connections)
         => /\ ret'.res = "ok"
            /\ ~poisoned'
            /\ q \in DOMAIN connections'
            /\ connections'[q].closed
            /\ out' = <<>>]_vars

\* C8: accept on an empty pending queue waits; it does not return an error
\* merely because no connection is pending.
C8_AcceptNeverWouldBlock ==
    ~(ret.op = "accept" /\ ret.res = "WouldBlock")

\* lhs strictly precedes rhs in sequence space: 0 < (rhs - lhs) mod 2^32 < 2^31
Precedes(lhs, rhs) == WSub(rhs, lhs) > 0

\* C9: wrapping_lt(lhs, rhs) is true exactly when lhs strictly precedes rhs
\* modulo 2^32, and is_between_wrapped(start, x, end) is true only when
\* start precedes x and x precedes end.
C9_WrappingLtIsSerialOrder ==
    /\ calc.f = "wrapping_lt" => (calc.r <=> Precedes(calc.x, calc.y))
    /\ calc.f = "is_between_wrapped"
       => (calc.r => Precedes(calc.x, calc.y) /\ Precedes(calc.y, calc.z))

\* s lies in the receive window [nxt, nxt + wnd) modulo 2^32
InWindow(s, nxt, wnd) == WSub(s, nxt) >= 0 /\ WSub(s, nxt) < wnd

\* the acceptability table of RFC 793
RfcAcceptable(nxt, wnd, seqn, slen) ==
    IF slen = 0
    THEN IF wnd = 0 THEN seqn = nxt ELSE InWindow(seqn, nxt, wnd)
    ELSE IF wnd = 0 THEN FALSE
         ELSE \/ InWindow(seqn, nxt, wnd)
              \/ InWindow(WAdd(seqn, slen - 1), nxt, wnd)

\* C10: the acceptability test of on_packet agrees with the RFC 793 table
\* for every segment.
C10_AcceptabilityIsRfc793 ==
    calc.f = "segment_okay"
    => (calc.r <=> RfcAcceptable(calc.x, calc.wnd, calc.y, calc.slen))

-----------------------------------------------------------------------------
(* One connection on its own: Init is the state after Interface::bind(80),  *)
(* the peer's SYN and TcpListener::accept; the steps are the segments the   *)
(* packet loop hands to on_packet, on_tick, close and TcpStream::write.     *)

\* model bound: how many steps a run on the one connection takes
MaxConnSteps == 5

TheQuad == [src |-> 1, dst |-> 80]

\* the peer's SYN: sequence number 100, advertised window 4
PeerSyn == Seg(100, 0, TRUE, FALSE, FALSE, 4, <<>>)

\* what the application writes
ConnBufs == {<<1, 2>>, Fill(16)}

\* segments addressed to the connection c: those of ConnSegs, data far to
\* the left of recv.nxt, data inside the window but beyond recv.nxt, a
\* retransmission that overlaps recv.nxt by one byte, and the ACK of
\* everything sent with a FIN
WideSegs(c) ==
    ConnSegs(c) \cup
    {Seg(WSub(c.recv_nxt, 100), c.send_nxt, FALSE, TRUE, FALSE, 4, <<5, 6>>),
     Seg(WAdd(c.recv_nxt, 2), c.send_nxt, FALSE, TRUE, FALSE, 4, <<3, 4>>),
     Seg(WSub(c.recv_nxt, 1), c.send_nxt, FALSE, TRUE, FALSE, 4, <<9, 7, 8>>)}

InitConn ==
    /\ overflow_checks \in BOOLEAN
    /\ connections = Insert(EmptyMap, TheQuad, accept(PeerSyn, overflow_checks).c)
    /\ pending = Insert(EmptyMap, TheQuad.dst, <<>>)
    /\ listeners = [p \in Ports |-> IF p = TheQuad.dst THEN 1 ELSE 0]
    /\ streams = [q \in Quads |-> IF q = TheQuad THEN 1 ELSE 0]
    /\ readers = [q \in Quads |-> Idle]
    /\ poisoned = FALSE
    /\ ret = Ret("accept", TheQuad.dst, TheQuad, "ok", 0, 0, <<>>)
    /\ out = <<>>
    /\ budget = MaxConnSteps
    /\ calc = NoCalc
    /\ wrote = [q \in Quads |-> <<>>]

NextConn ==
    \/ \E seg \in WideSegs(connections[TheQuad]) : PacketOccupied(TheQuad, seg)
    \/ \E timeout \in BOOLEAN : Tick(TheQuad, timeout)
    \/ Close(TheQuad)
    \/ \E buf \in ConnBufs : Write(TheQuad, buf)

SpecConn == InitConn /\ [][NextConn]_vars

\* SEG.LEN of a segment: payload bytes plus one for SYN and one for FIN
SegLen(seg) == Len(seg.data) + B2N(seg.fin) + B2N(seg.syn)

\* the whole sequence range of seg lies before recv.nxt
EntirelyLeft(c, seg) ==
    Precedes(WAdd(seg.seq, IF SegLen(seg) = 0 THEN 0 ELSE SegLen(seg) - 1),
             c.recv_nxt)

\* C11: a segment whose whole sequence range lies before recv.nxt elicits
\* one payload-less ACK with seq = send.nxt and ack = recv.nxt, and the
\* on_packet call leaves state, send.una, send.nxt, recv.nxt, incoming and
\* unacked as they were.
C11_StaleSegmentOnlyAcked ==
    [][\A q \in DOMAIN connections : \A seg \in WideSegs(connections[q]) :
         (EntirelyLeft(connections[q], seg) /\ PacketOccupied(q, seg))
         => LET c == connections[q]
                d == connections'[q]
            IN  /\ ~poisoned'
                /\ Len(out') = 1
                /\ out'[1].seq = c.send_nxt
                /\ out'[1].ack = c.recv_nxt
                /\ out'[1].ackf
                /\ out'[1].data = <<>>
                /\ d.state = c.state
                /\ d.send_una = c.send_una
                /\ d.send_nxt = c.send_nxt
                /\ d.recv_nxt = c.recv_nxt
                /\ d.incoming = c.incoming
                /\ d.unacked = c.unacked]_vars

\* C12: recv.nxt never moves backwards: after every step the new recv.nxt
\* equals the old one or follows it under wrapping comparison.
C12_RecvNxtNeverMovesBack ==
    [][\A q \in DOMAIN connections \cap DOMAIN connections' :
         WSub(connections'[q].recv_nxt, connections[q].recv_nxt) >= 0]_vars

\* the payload bytes of seg whose sequence numbers start at recv.nxt: the
\* suffix of the payload from recv.nxt on when the segment starts at or
\* before recv.nxt and reaches it, nothing otherwise
FreshBytes(c, seg) ==
    LET at == WSub(c.recv_nxt, seg.seq)
    IN  IF at >= 0 /\ at <= Len(seg.data)
        THEN SubSeq(seg.data, at + 1, Len(seg.data))
        ELSE <<>>

\* C13: on_packet appends to incoming only payload bytes whose sequence
\* numbers continue at the old recv.nxt: a prefix of the not-yet-received
\* suffix of the payload, and nothing of a segment that starts beyond
\* recv.nxt or ends before it.
C13_IncomingIsContiguous ==
    [][\A q \in DOMAIN connections : \A seg \in WideSegs(connections[q]) :
         (PacketOccupied(q, seg) /\ ~poisoned')
         => \E k \in 0..Len(FreshBytes(connections[q], seg)) :
               connections'[q].incoming =
                   connections[q].incoming
                   \o SubSeq(FreshBytes(connections[q], seg), 1, k)]_vars

\* una <= nxt <= una + wnd + 2 under wrapping comparison
SendSpaceOrdered(c) ==
    /\ WSub(c.send_nxt, c.send_una) >= 0
    /\ WSub(c.send_nxt, c.send_una) <= c.send_wnd + 2

\* C14: after every step send.una <= send.nxt <= send.una + send.wnd + 2
\* under wrapping comparison (no ACK number moves send.una past send.nxt),
\* and no on_tick moves send.nxt backwards, which would drop a sequence
\* number already counted for data, SYN or FIN.
C14_SendSpaceOrdered ==
    [][~poisoned' =>
         /\ \A q \in DOMAIN connections' : SendSpaceOrdered(connections'[q])
         /\ \A q \in DOMAIN connections : \A timeout \in BOOLEAN :
               Tick(q, timeout)
               => WSub(connections'[q].send_nxt, connections[q].send_nxt) >= 0]_vars

\* the step is an on_tick or an on_packet on the connection of q
EmitsFor(q) ==
    \/ \E timeout \in BOOLEAN : Tick(q, timeout)
    \/ \E seg \in WideSegs(connections[q]) : PacketOccupied(q, seg)

\* C15: every payload byte put on the wire at sequence number s is the byte
\* the application wrote at stream position s - iss - 1, for first
\* transmissions and retransmissions alike.
C15_WireBytesAreStreamBytes ==
    [][\A q \in DOMAIN connections :
         EmitsFor(q)
         => \A i \in 1..Len(out') : \A j \in 1..Len(out'[i].data) :
               LET p == WSub(out'[i].seq, connections[q].send_iss) + (j - 1)
               IN  /\ p >= 1
                   /\ p <= Len(wrote'[q])
                   /\ out'[i].data[j] = wrote'[q][p]]_vars

\* C16: every key of timers.send_times lies in the wrapping range
\* [send.una, send.nxt].
C16_TimerKeysInFlight ==
    ~poisoned =>
       \A q \in DOMAIN connections : \A k \in connections[q].send_times :
          /\ WSub(k, connections[q].send_una) >= 0
          /\ WSub(connections[q].send_nxt, k) >= 0

\* send.una - 1 < ackn <= send.nxt + 1 under wrapping comparison
AckCompletesHandshake(c, ackn) ==
    /\ WSub(ackn, WSub(c.send_una, 1)) > 0
    /\ WSub(WAdd(c.send_nxt, 1), ackn) >= 0

\* C17: an on_packet call on a connection in SynRcvd moves it to Estab only
\* if the segment has ACK set and send.una - 1 < ackn <= send.nxt + 1; an
\* ACK whose number lies outside that range leaves the state SynRcvd and
\* send.una unchanged.
C17_HandshakeAckInRange ==
    [][\A q \in DOMAIN connections : \A seg \in WideSegs(connections[q]) :
         (/\ connections[q].state = "SynRcvd"
          /\ PacketOccupied(q, seg)
          /\ ~poisoned')
         => LET c == connections[q]
                d == connections'[q]
            IN  /\ d.state = "Estab"
                   => (seg.ackf /\ AckCompletesHandshake(c, seg.ack))
                /\ (seg.ackf /\ ~AckCompletesHandshake(c, seg.ack))
                   => (d.state = "SynRcvd" /\ d.send_una = c.send_una)]_vars

\* the segments of segs that carry FIN
FinSegs(segs) == {i \in 1..Len(segs) : segs[i].fin}

\* C18: when on_tick emits the FIN of a closed connection in Estab, every
\* byte of unacked has been emitted, the FIN has the sequence number
\* send.una + unacked.len, and the state becomes FinWait1; when the peer's
\* in-order ACK of that FIN (send.una + unacked.len + 1) arrives, the state
\* becomes FinWait2, whatever the number of bytes sent before the FIN.
C18_CloseReachesFinWait ==
    [][\A q \in DOMAIN connections :
         LET c == connections[q]
             d == connections'[q]
         IN  /\ \A timeout \in BOOLEAN :
                  (/\ Tick(q, timeout)
                   /\ c.state = "Estab" /\ c.closed
                   /\ FinSegs(out') # {})
                  => /\ \A i \in FinSegs(out') :
                          WAdd(out'[i].seq, Len(out'[i].data))
                              = WAdd(c.send_una, Len(c.unacked))
                     /\ d.state = "FinWait1"
             /\ \A seg \in WideSegs(c) :
                  (/\ PacketOccupied(q, seg)
                   /\ c.state \in {"Estab", "FinWait1"}
                   /\ c.closed_at # None
                   /\ c.send_nxt = WAdd(WAdd(c.send_una, Len(c.unacked)), 1)
                   /\ seg.seq = c.recv_nxt /\ SegLen(seg) = 0
                   /\ seg.ackf /\ seg.ack = c.send_nxt)
                  => d.state = "FinWait2"]_vars

\* C19: on a closed connection in Estab with unacked empty, everything sent
\* acknowledged and no FIN sent yet, on_tick emits exactly one segment: FIN
\* set, seq = send.nxt, no payload, and send.nxt advances by 1; once the FIN
\* is sent, an on_tick that runs before the retransmission timeout emits no
\* segment.
C19_OneFinAfterClose ==
    [][\A q \in DOMAIN connections :
         LET c == connections[q]
             d == connections'[q]
         IN  /\ \A timeout \in BOOLEAN :
                  (/\ Tick(q, timeout)
                   /\ c.state = "Estab" /\ c.closed /\ c.closed_at = None
                   /\ c.unacked = <<>> /\ c.send_una = c.send_nxt)
                  => /\ ~poisoned'
                     /\ Len(out') = 1
                     /\ out'[1].fin
                     /\ out'[1].seq = c.send_nxt
                     /\ out'[1].data = <<>>
                     /\ d.send_nxt = WAdd(c.send_nxt, 1)
             /\ (/\ Tick(q, FALSE)
                 /\ c.state = "Estab" /\ c.closed /\ c.closed_at # None
                 /\ c.unacked = <<>>)
                => (~poisoned' /\ out' = <<>>)]_vars

\* C20: the peer advertises the window PeerSyn.wnd in every segment; after
\* every on_tick emission the payload bytes in flight (from send.una to the
\* end of the emitted payload, not counting the SYN) are at most that
\* window.
C20_SendClampedByPeerWindow ==
    [][\A q \in DOMAIN connections : \A timeout \in BOOLEAN :
         Tick(q, timeout)
         => \A i \in 1..Len(out') :
               WSub(WAdd(out'[i].seq, Len(out'[i].data)),
                    connections'[q].send_una)
                 - B2N(connections'[q].send_una = connections'[q].send_iss)
               <= PeerSyn.wnd]_vars

\* seg is the peer's original SYN of the connection c: same seq, ACK clear
IsOriginalSyn(c, seg) ==
    /\ seg.syn /\ ~seg.ackf /\ ~seg.fin
    /\ seg.seq = c.recv_irs
    /\ seg.data = <<>>

\* C21: when the peer retransmits its original SYN for a Quad whose
\* connection is in SynRcvd, the endpoint emits a SYN+ACK with seq = iss and
\* ack = irs + 1, and the table still holds the one connection of that Quad:
\* no connection and no pending-queue entry is added.
C21_DuplicateSynReemitsSynAck ==
    [][\A q \in DOMAIN connections : \A seg \in WideSegs(connections[q]) :
         (/\ connections[q].state = "SynRcvd"
          /\ IsOriginalSyn(connections[q], seg)
          /\ PacketOccupied(q, seg))
         => LET c == connections[q]
            IN  /\ ~poisoned'
                /\ Len(out') = 1
                /\ out'[1].syn /\ out'[1].ackf
                /\ out'[1].seq = c.send_iss
                /\ out'[1].ack = WAdd(c.recv_irs, 1)
                /\ DOMAIN connections' = DOMAIN connections
                /\ pending' = pending]_vars

\* C22: a FIN that arrives in order (acceptable, ACK set) on a connection
\* that is not in FinWait2 does not stop the endpoint: the manager stays
\* usable (no panic under its mutex), every other connection is left as it
\* was, and the connection itself is either kept or removed from the table.
C22_FinDoesNotStopEndpoint ==
    [][\A q \in DOMAIN connections : \A seg \in WideSegs(connections[q]) :
         (/\ seg.fin /\ seg.ackf
          /\ connections[q].state # "FinWait2"
          /\ segment_okay(connections[q].recv_nxt, connections[q].recv_wnd,
                          seg.seq, SegLen(seg))
          /\ PacketOccupied(q, seg))
         => /\ ~poisoned'
            /\ DOMAIN connections' \in {DOMAIN connections,
                                        DOMAIN connections \ {q}}
            /\ \A r \in DOMAIN connections \ {q} :
                  connections'[r] = connections[r]]_vars

\* C23: the packet loop creates a connection (table entry, pending-queue
\* entry, SYN+ACK) only for a segment with SYN set and ACK clear; for any
\* other segment on a Quad without a connection, including one with both
\* SYN and ACK set, it changes neither the table nor the queues and emits
\* nothing.
C23_AcceptOnlyPureSyn ==
    [][\A q \in Quads : \A seg \in NewSegs :
         (PacketVacant(q, seg) /\ ~(seg.syn /\ ~seg.ackf))
         => /\ connections' = connections
            /\ pending' = pending
            /\ out' = <<>>]_vars

\* on_tick's nunacked for the connection c
Nunacked(c) ==
    WSub(IF c.closed_at = None THEN c.send_nxt ELSE c.closed_at[1], c.send_una)

\* C24: whenever on_tick runs, nunacked is at most unacked.len and at most
\* send.wnd, so that neither unacked.len - nunacked nor send.wnd - nunacked
\* underflows.
C24_TickCountsDoNotUnderflow ==
    [][\A q \in DOMAIN connections : \A timeout \in BOOLEAN :
         Tick(q, timeout)
         => /\ ~SubUnderflows(Len(connections[q].unacked),
                              Nunacked(connections[q]))
            /\ ~SubUnderflows(connections[q].send_wnd,
                              Nunacked(connections[q]))]_vars

\* the (port, index) positions at which the Quad q sits in a pending queue
Positions(q) ==
    {pi \in UNION {{<<p, i>> : i \in 1..Len(pending[p])} : p \in DOMAIN pending} :
        pending[pi[1]][pi[2]] = q}

\* C25: every Quad stored in a pending queue is a key of the connection
\* table, sits in the queue of its own local port and occurs once across
\* all queues; an accept that returned a Stream returned it for a connection
\* of the table, and no Quad has two live Streams.
C25_PendingQuadsAreLive ==
    /\ \A p \in DOMAIN pending : \A i \in 1..Len(pending[p]) :
          /\ pending[p][i] \in DOMAIN connections
          /\ pending[p][i].dst = p
          /\ Positions(pending[p][i]) = {<<p, i>>}
    /\ (ret.op = "accept" /\ ret.res = "ok") => ret.quad \in DOMAIN connections
    /\ \A q \in Quads : streams[q] <= 1

\* C25 witness: accept has returned a Stream for one connection while
\* another Quad is still queued on the same port
C25_Witness ==
    /\ ret.op = "accept" /\ ret.res = "ok"
    /\ ret.quad \in DOMAIN connections
    /\ ret.port \in DOMAIN pending
    /\ pending[ret.port] # <<>>
    /\ streams[ret.quad] = 1

====
